---- MODULE Spec2Model ----
(***************************************************************************)
(* Model of the App Store price editor: the route handlers of              *)
(* app/api/appstore/prices/route.ts (resource resolution, price-point      *)
(* catalog, price update) and the bulk-edit loop of BulkEditModal.tsx.     *)
(*                                                                         *)
(* JavaScript runs a handler from one `await` to the next without          *)
(* interruption, so one action of the model is "the response of a vendor   *)
(* call arrives": the code that runs from that await up to the next        *)
(* suspension point (the next vendor call, the pacing timer, or the end of *)
(* the handler), including the return through the HTTP boundary into the   *)
(* client loop.  The set `ops` holds the vendor calls that are in flight.  *)
(***************************************************************************)
EXTENDS Integers, Sequences, FiniteSets, TLC

\* ---- bounds ----
MaxGroups == 2     \* subscription groups the vendor returns for the app
MaxSubs == 1       \* subscriptions per group
MaxLines == 2      \* raw lines of the bulk CSV text
MaxPages == 2      \* pages of one price-point catalog
MaxRequests == 2   \* single-item requests made in a row
MaxChars == 4      \* characters of a CSV text whose parse is examined
MaxCands == 3      \* candidates handed to the matcher
MaxOrphans == 1    \* bulk runs left running by closing and reopening the modal
MaxProducts == 2   \* products in the vendor's list of the app
MaxPrices == 2     \* prices in the data of one vendor page
MaxIncluded == 3   \* resources in the included set of one vendor page

\* ---- identifiers ----
IapId == 1                   \* the product id the operation is invoked with
NoId == 0                    \* the empty string '' used as "no subscription id"
SubId(g, k) == 10 * g + k    \* vendor id of the k-th subscription of group g
TargetPid == "com.app.target"   \* productId attribute of the product
OtherPid == "com.app.other"     \* productId attribute of some other product
NaN == -1                    \* parseFloat's NaN (prices are in cents, >= 0)
Infinity == 999999999        \* parseFloat's Infinity

VARIABLES
  isSub,      \* vendor: inAppPurchaseType = AUTOMATICALLY_RENEWABLE_SUBSCRIPTION
  groups,     \* vendor: subscription groups in vendor order, each the
              \*         sequence of productId attributes of its subscriptions
  clock,      \* server: UTC hour of the day and the local UTC offsets (hours)
              \*         now and on the local day two days ahead
  csvText,    \* BulkEditModal state csvText: a sequence of characters
  modal,      \* BulkEditModal component state (useState hooks) and mount flag
  run,        \* the handleBulkEdit invocation: inputs, loop index, position
  ops,        \* server operations, each with its vendor call in flight
  response,   \* HTTP response of the last single-item request
  hist,       \* observations of the run (history only, never read by the code)
  orphans,    \* handleBulkEdit invocations of BulkEditModal instances that
              \*         were closed and replaced: each with its calls and history
  vendor,     \* the vendor's response body a listing is made from
  listing     \* the listing (all products, or one page of prices) being built

vars == <<isSub, groups, clock, csvText, modal, run, ops, response, hist, orphans,
          vendor, listing>>

\* ---------------------------------------------------------------------
\* Pure helpers
\* ---------------------------------------------------------------------
Abs(x) == IF x < 0 THEN -x ELSE x

SeqsUpTo(S, n) == UNION {[1..k -> S] : k \in 0..n}

\* Array.prototype.find as an index: first k with s[k] = x, 0 if none
FindIndex(s, x) ==
  IF \E k \in 1..Len(s) : s[k] = x
  THEN CHOOSE k \in 1..Len(s) : s[k] = x /\ \A j \in 1..(k-1) : s[j] # x
  ELSE 0

\* First group (vendor order) holding a subscription of the product, 0 if none
FirstMatchGroup ==
  IF \E g \in 1..Len(groups) : FindIndex(groups[g], TargetPid) > 0
  THEN CHOOSE g \in 1..Len(groups) :
         /\ FindIndex(groups[g], TargetPid) > 0
         /\ \A h \in 1..(g-1) : FindIndex(groups[h], TargetPid) = 0
  ELSE 0

\* A vendor price point; customerPrice in cents
PricePoint(id) == [id |-> id, customerPrice |-> 800 + 100 * id]

\* The item lists the vendor may return as page k of a catalog
PageChoices(k) ==
  { <<>>, <<PricePoint(2*k - 1)>>, <<PricePoint(2*k - 1), PricePoint(2*k)>> }

\* ---------------------------------------------------------------------
\* Server side: one operation = one invocation of a route-handler function
\* ---------------------------------------------------------------------
\* What a handler function returns or throws (messages are token sequences)
Ok(pp) == [ok |-> TRUE, msg |-> <<>>, pricePoints |-> pp]
Err(m) == [ok |-> FALSE, msg |-> <<m>>, pricePoints |-> <<>>]
NoResponse == [ok |-> FALSE, msg |-> <<"pending">>, pricePoints |-> <<>>]

Cont(o) == [done |-> FALSE, op |-> o, result |-> Err("")]
Fin(o, r) == [done |-> TRUE, op |-> o, result |-> r]

\* Dates are day numbers, instants are hours; the request arrives on UTC
\* day Today at clock.hour
Today == 10
UtcDate(c) == Today
LocalDate(c) == (24 * Today + c.hour + c.offNow) \div 24

\* new Date(); setDate(getDate() + 2); toISOString().split('T')[0]:
\* two days are added to the local calendar date keeping the local time of
\* day, the resulting instant is printed as its UTC date
StartDate(c) ==
  LET localNow == 24 * Today + c.hour + c.offNow
      localThen == localNow + 48
      utcThen == localThen - c.offThen
  IN utcThen \div 24

NoPayload == [type |-> "none"]

\* The handler has fetched /v1/inAppPurchases/{iapId} and awaits the answer
NewOp(name, line, territory, pricePointId) ==
  [ name |-> name, line |-> line, call |-> "product", g |-> 0,
    isSubscription |-> FALSE, matched |-> FALSE,
    resourceId |-> IF name = "update" THEN NoId ELSE IapId,
    col |-> "inAppPurchases", target |-> IapId,
    territory |-> territory, pricePointId |-> pricePointId,
    page |-> 0, acc |-> <<>>, slot |-> 0,
    preserveCurrentPrice |-> FALSE,
    startDate |-> IF name = "update" THEN StartDate(clock) ELSE 0,
    payload |-> NoPayload ]

\* variant: the one-time purchase body is sent whatever the kind
Payload_OneShape(o) ==
  [ type |-> "inAppPurchasePrices", startDate |-> o.startDate,
    territory |-> o.territory, pricePoint |-> o.pricePointId ]

\* JSON body of the vendor write
Payload(o) ==
  IF o.isSubscription
  THEN [ type |-> "subscriptionPrices", startDate |-> o.startDate,
         preserveCurrentPrice |-> o.preserveCurrentPrice,
         subscription |-> o.resourceId,
         subscriptionPricePoint |-> o.pricePointId ]
  ELSE [ type |-> "inAppPurchasePrices", startDate |-> o.startDate,
         territory |-> o.territory, pricePoint |-> o.pricePointId ]

\* The call made once the resource is resolved
AfterResolve(o) ==
  CASE o.name = "pricePoints" ->
         Cont([o EXCEPT !.call = "page", !.page = 1,
                 !.col = IF o.isSubscription THEN "subscriptions" ELSE "inAppPurchases",
                 !.target = IF o.isSubscription THEN o.resourceId ELSE IapId])
    [] o.name = "update" ->
         Cont([o EXCEPT !.call = "write",
                 !.col = IF o.isSubscription THEN "subscriptions" ELSE "inAppPurchases",
                 !.target = IF o.isSubscription THEN o.resourceId ELSE IapId,
                 !.payload = Payload(o)])
    [] OTHER ->
         Cont([o EXCEPT !.call = "prices",
                 !.col = IF o.matched THEN "subscriptions" ELSE "inAppPurchases",
                 !.target = o.resourceId])

\* The check that follows the group loop
EndScan(o) ==
  CASE o.name = "update" ->
         IF o.resourceId = NoId
         THEN Fin(o, Err("Could not find associated subscription for this IAP"))
         ELSE AfterResolve(o)
    [] o.name = "prices" ->
         IF o.resourceId = IapId
         THEN Fin(o, Err("Could not find associated subscription for this IAP"))
         ELSE AfterResolve(o)
    [] o.name = "currentPrices" ->
         IF o.resourceId = NoId
         THEN Fin(o, Err("Could not find associated subscription for this IAP"))
         ELSE AfterResolve(o)
    [] OTHER -> AfterResolve(o)

\* for (const group of groupsData.data): query group g or leave the loop
Scan(o, g) ==
  IF g > Len(groups) THEN EndScan(o)
  ELSE Cont([o EXCEPT !.call = "subs", !.g = g])

\* variant: the group scan is entered whatever the purchase type
OnProduct_AlwaysScan(o, ok) ==
  IF ~ok THEN Fin(o, Err("Failed to fetch IAP details"))
  ELSE Cont([o EXCEPT !.isSubscription = isSub, !.call = "groups"])

OnProduct(o, ok) ==
  IF ~ok THEN Fin(o, Err("Failed to fetch IAP details"))
  ELSE IF isSub THEN Cont([o EXCEPT !.isSubscription = TRUE, !.call = "groups"])
  ELSE AfterResolve(o)

OnGroups(o, ok) ==
  IF ~ok THEN Fin(o, Err("Failed to fetch subscription groups"))
  ELSE Scan(o, 1)

OnSubs(o, ok) ==
  IF ~ok THEN Scan(o, o.g + 1)
  ELSE LET k == FindIndex(groups[o.g], TargetPid) IN
       IF k > 0
       THEN EndScan([o EXCEPT !.resourceId = SubId(o.g, k), !.matched = TRUE])
       ELSE Scan(o, o.g + 1)

\* variant: a failed later page fails the whole call
OnPage_AllOrNothing(o, ok, items, next) ==
  IF ~ok THEN Fin(o, Err("Failed to fetch price points"))
  ELSE LET all == o.acc \o items IN
       IF next THEN Cont([o EXCEPT !.acc = all, !.page = o.page + 1])
       ELSE Fin(o, Ok(all))

\* variant: each page replaces what was fetched before
OnPage_LastPageOnly(o, ok, items, next) ==
  IF ~ok
  THEN IF o.page = 1 THEN Fin(o, Err("Failed to fetch price points"))
       ELSE Fin(o, Ok(o.acc))
  ELSE IF next THEN Cont([o EXCEPT !.acc = items, !.page = o.page + 1])
       ELSE Fin(o, Ok(items))

OnPage(o, ok, items, next) ==
  IF ~ok
  THEN IF o.page = 1 THEN Fin(o, Err("Failed to fetch price points"))
       ELSE Fin(o, Ok(o.acc))
  ELSE LET all == o.acc \o items IN
       IF next THEN Cont([o EXCEPT !.acc = all, !.page = o.page + 1])
       ELSE Fin(o, Ok(all))

\* variant: a rejected write is sent once more
OnWrite_Retry(o, ok) ==
  IF ok THEN Fin(o, Ok(<<>>))
  ELSE IF o.page = 0 THEN Cont([o EXCEPT !.page = 1])
  ELSE Fin(o, Err("Failed to update price"))

OnWrite(o, ok) ==
  IF ok THEN Fin(o, Ok(<<>>))
  ELSE Fin(o, Err("Failed to update price"))

OnPrices(o, ok) ==
  IF ok THEN Fin(o, Ok(<<>>))
  ELSE Fin(o, Err("Failed to fetch prices"))

\* ---------------------------------------------------------------------
\* Client side: BulkEditModal
\* ---------------------------------------------------------------------
\* A text is a sequence of characters.  "LF" is the line feed; "US", "XX",
\* "CA", "GB" and "badline" stand for runs of letters, "x" for one letter and
\* "Infinity" for that word.
Digits == {"0", "4", "5", "8", "9", "1"}
DigitVal(c) ==
  CASE c = "0" -> 0 [] c = "1" -> 1 [] c = "4" -> 4
    [] c = "5" -> 5 [] c = "8" -> 8 [] OTHER -> 9

\* String.prototype.split(sep): the segments of s between the separators
RECURSIVE SplitFrom(_, _, _)
SplitFrom(s, sep, cur) ==
  IF s = <<>> THEN <<cur>>
  ELSE IF Head(s) = sep THEN <<cur>> \o SplitFrom(Tail(s), sep, <<>>)
       ELSE SplitFrom(Tail(s), sep, Append(cur, Head(s)))

Split(s, sep) == SplitFrom(s, sep, <<>>)

\* String.prototype.trim (of a text without line feeds)
RECURSIVE TrimLeft(_)
TrimLeft(s) ==
  IF s # <<>> /\ Head(s) \in {" ", "LF"} THEN TrimLeft(Tail(s)) ELSE s

RECURSIVE TrimRight(_)
TrimRight(s) ==
  IF s # <<>> /\ s[Len(s)] \in {" ", "LF"}
  THEN TrimRight(SubSeq(s, 1, Len(s) - 1)) ELSE s

Trim(s) == TrimRight(TrimLeft(s))

\* length of the longest prefix of s made of digits
RECURSIVE DigitRun(_)
DigitRun(s) ==
  IF s # <<>> /\ Head(s) \in Digits THEN 1 + DigitRun(Tail(s)) ELSE 0

\* value of a digit string
RECURSIVE IntVal(_)
IntVal(d) ==
  IF d = <<>> THEN 0 ELSE 10 * IntVal(SubSeq(d, 1, Len(d) - 1)) + DigitVal(d[Len(d)])

\* hundredths given by the digits after the point (two places are kept)
Cents(f) ==
  CASE Len(f) = 0 -> 0
    [] Len(f) = 1 -> 10 * DigitVal(f[1])
    [] OTHER -> 10 * DigitVal(f[1]) + DigitVal(f[2])

\* parseFloat: the longest prefix that is a decimal literal, whatever follows;
\* NaN if there is none.  The value is in cents.
ParseFloat(tok) ==
  LET t == TrimLeft(tok)
      n == DigitRun(t)
      afterInt == SubSeq(t, n + 1, Len(t))
      hasPoint == afterInt # <<>> /\ Head(afterInt) = "."
      m == IF hasPoint THEN DigitRun(Tail(afterInt)) ELSE 0
      frac == IF hasPoint THEN SubSeq(afterInt, 2, m + 1) ELSE <<>>
  IN IF t # <<>> /\ Head(t) = "Infinity" THEN Infinity
     ELSE IF n = 0 /\ m = 0 THEN NaN
     ELSE 100 * IntVal(SubSeq(t, 1, n)) + Cents(frac)

\* line.split(',').map(trim)
RECURSIVE TrimAll(_)
TrimAll(parts) ==
  IF parts = <<>> THEN <<>> ELSE <<Trim(Head(parts))>> \o TrimAll(Tail(parts))

\* for (const line of lines): two parts and a price that is not NaN
RECURSIVE ParseLines(_)
ParseLines(lines) ==
  IF lines = <<>> THEN <<>>
  ELSE LET parts == TrimAll(Split(Head(lines), ","))
           rest == ParseLines(Tail(lines))
       IN IF Len(parts) # 2 THEN rest
          ELSE IF ParseFloat(parts[2]) # NaN
               THEN <<[territory |-> parts[1],
                       desiredPrice |-> ParseFloat(parts[2])]>> \o rest
               ELSE rest

\* .filter(Boolean): the empty string is dropped
RECURSIVE NonBlank(_)
NonBlank(lines) ==
  IF lines = <<>> THEN <<>>
  ELSE IF Head(lines) = <<>> THEN NonBlank(Tail(lines))
       ELSE <<Head(lines)>> \o NonBlank(Tail(lines))

parseCsv(text) == ParseLines(NonBlank(TrimAll(Split(text, "LF"))))

\* Math.abs(desiredPrice - parseFloat(pp.customerPrice))
Diff(desiredPrice, pp) ==
  IF desiredPrice = Infinity THEN Infinity ELSE Abs(desiredPrice - pp.customerPrice)

\* variant: a candidate that is equally close replaces the best so far
RECURSIVE ClosestFrom_LastWins(_, _, _, _)
ClosestFrom_LastWins(desiredPrice, pricePoints, k, b) ==
  IF k > Len(pricePoints) THEN b
  ELSE IF Diff(desiredPrice, pricePoints[k]) <= Diff(desiredPrice, pricePoints[b])
       THEN ClosestFrom_LastWins(desiredPrice, pricePoints, k + 1, k)
       ELSE ClosestFrom_LastWins(desiredPrice, pricePoints, k + 1, b)

\* index of the best match after scanning pricePoints[k..], best so far at b
RECURSIVE ClosestFrom(_, _, _, _)
ClosestFrom(desiredPrice, pricePoints, k, b) ==
  IF k > Len(pricePoints) THEN b
  ELSE IF Diff(desiredPrice, pricePoints[k]) < Diff(desiredPrice, pricePoints[b])
       THEN ClosestFrom(desiredPrice, pricePoints, k + 1, k)
       ELSE ClosestFrom(desiredPrice, pricePoints, k + 1, b)

\* What a call of the matcher produces: a price point, or a thrown error
NoPricePoint == [id |-> NoId, customerPrice |-> NaN]
Returned(pp) == [threw |-> FALSE, msg |-> <<>>, value |-> pp]
Thrown(m) == [threw |-> TRUE, msg |-> <<m>>, value |-> NoPricePoint]
NoMatch == [threw |-> FALSE, msg |-> <<"none">>, value |-> NoPricePoint]

\* variant: an empty list yields a default price point
findClosestPricePoint_Default(desiredPrice, pricePoints) ==
  IF pricePoints = <<>> THEN Returned(PricePoint(1))
  ELSE Returned(pricePoints[ClosestFrom(desiredPrice, pricePoints, 1, 1)])

\* pricePoints[0] is undefined on an empty list: reading its customerPrice
\* throws a TypeError
findClosestPricePoint(desiredPrice, pricePoints) ==
  IF pricePoints = <<>>
  THEN Thrown("Cannot read properties of undefined")
  ELSE Returned(pricePoints[ClosestFrom(desiredPrice, pricePoints, 1, 1)])

\* useState initial values of a BulkEditModal instance
FreshModal ==
  [ mounted |-> TRUE, status |-> <<>>, errors |-> <<>>,
    inProgress |-> FALSE, doneCount |-> 0, totalCount |-> 0,
    preserveCurrentPrice |-> TRUE ]

IdleRun == [ pc |-> "idle", inputs |-> <<>>, i |-> 0, preserveCurrentPrice |-> TRUE ]
NoRes == [col |-> "", target |-> NoId]
NoResp == [call |-> "", ok |-> TRUE]
NoFetch == [line |-> 0, kind |-> "none", msg |-> <<>>]
NoBody == [method |-> "GET", iapId |-> NoId, territory |-> <<>>, pricePointId |-> 0,
           preserveCurrentPrice |-> FALSE]
\* no vendor body received, no listing requested
NoVendor == [products |-> <<>>, bodies |-> <<>>, data |-> <<>>, included |-> <<>>,
             next |-> [present |-> FALSE, params |-> <<>>]]

NoListing == [pc |-> "idle", rows |-> <<>>, prices |-> <<>>,
              hasMore |-> FALSE, nextCursor |-> "null"]

NoHist == [ attempts |-> <<>>, pausedAfter |-> 0, fetchRes |-> NoRes,
            lastResp |-> NoResp, requests |-> 0, bestMatch |-> NoMatch,
            served |-> <<>>, writes |-> <<>>, lastFetch |-> NoFetch,
            body |-> NoBody, fromCatalog |-> TRUE, refreshes |-> 0,
            uncaught |-> <<>>, supplied |-> TRUE, failedCalls |-> {},
            calledSlots |-> {}, failedSlots |-> {} ]

\* The props IAPPricingClient passes to BulkEditModal
ParentProps == {"isOpen", "onClose", "iapId", "onUpdate"}

\* A state setter: ignored by React once the component is unmounted
SetState(S, m) == IF S.modal.mounted THEN [S EXCEPT !.modal = m] ELSE S

\* GET /api/appstore/prices?iapId=..&territory=..&fetch=pricePoints
GET(S, line, territory) ==
  IF territory # <<>>
  THEN [S EXCEPT !.ops = @ \cup {NewOp("pricePoints", line, territory, 0)}]
  ELSE [S EXCEPT !.ops = @ \cup {NewOp("prices", line, territory, 0)}]

\* Loop body up to the first await: setStatus, then fetchPricePoints(territory)
StartLine(S, k) ==
  LET territory == S.run.inputs[k].territory
      S1 == SetState(S, [S.modal EXCEPT !.status = <<"Processing", k, territory>>])
      S2 == [S1 EXCEPT !.run.i = k, !.run.pc = "fetch",
                       !.hist.attempts = Append(@, k),
                       !.hist.fetchRes = NoRes]
  IN GET(S2, k, territory)

\* After the loop: setInProgress(false), setStatus(..), await onComplete().
\* A prop the parent does not pass is undefined and calling it throws.
Finish(S) ==
  LET S1 == SetState(S, [S.modal EXCEPT !.inProgress = FALSE,
                                        !.status = <<"Bulk updates complete">>])
  IN IF "onComplete" \in ParentProps
     THEN [S1 EXCEPT !.run.pc = "done", !.hist.refreshes = @ + 1]
     ELSE [S1 EXCEPT !.run.pc = "done",
                     !.hist.uncaught = <<"onComplete is not a function">>]

\* for (let i = 0; i < inputs.length; i++): line k (1-based) or leave the loop
Loop(S, k) ==
  IF k > Len(S.run.inputs) THEN Finish(S) ELSE StartLine(S, k)

\* variant: the catch block is outside the loop, a failure ends the run
LineError_Abort(S, msg) ==
  LET in == S.run.inputs[S.run.i]
      entry == [territory |-> in.territory, desiredPrice |-> in.desiredPrice,
                message |-> msg]
      S1 == SetState(S, [S.modal EXCEPT !.errors = Append(@, entry)])
  IN Finish(S1)

\* catch (err): append the formatted entry, then the next iteration
LineError(S, msg) ==
  LET in == S.run.inputs[S.run.i]
      entry == [territory |-> in.territory, desiredPrice |-> in.desiredPrice,
                message |-> msg]
      S1 == SetState(S, [S.modal EXCEPT !.errors = Append(@, entry)])
  IN Loop(S1, S.run.i + 1)

\* variant: the price point id is not validated
POST_NoPricePointCheck(S, line, iapId, territory, pricePointId, preserveCurrentPrice) ==
  IF iapId = NoId \/ territory = <<>>
  THEN [done |-> TRUE, S |-> S,
        result |-> Err("Missing required fields: iapId, territory, pricePointId")]
  ELSE [done |-> FALSE,
        S |-> [S EXCEPT !.ops = @ \cup
                 {[NewOp("update", line, territory, pricePointId)
                     EXCEPT !.preserveCurrentPrice = preserveCurrentPrice]}],
        result |-> Err("")]

\* POST /api/appstore/prices: validation, then updatePrice(...)
POST(S, line, iapId, territory, pricePointId, preserveCurrentPrice) ==
  IF iapId = NoId \/ territory = <<>> \/ pricePointId = 0
  THEN [done |-> TRUE, S |-> S,
        result |-> Err("Missing required fields: iapId, territory, pricePointId")]
  ELSE [done |-> FALSE,
        S |-> [S EXCEPT !.ops = @ \cup
                 {[NewOp("update", line, territory, pricePointId)
                     EXCEPT !.preserveCurrentPrice = preserveCurrentPrice]}],
        result |-> Err("")]

\* PATCH /api/appstore/prices: the same code as POST
PATCH(S, line, iapId, territory, pricePointId, preserveCurrentPrice) ==
  POST(S, line, iapId, territory, pricePointId, preserveCurrentPrice)

\* variant: the success count is incremented before the outcome is known
OnUpdateResult_CountFirst(S, r) ==
  LET S1 == SetState(S, [S.modal EXCEPT !.doneCount = @ + 1])
  IN IF r.ok THEN [S1 EXCEPT !.run.pc = "pause"]
     ELSE LineError(S1, r.msg)

\* variant: a failed update is rethrown out of the loop
OnUpdateResult_AbortBatch(S, r) ==
  IF r.ok
  THEN LET S1 == SetState(S, [S.modal EXCEPT !.doneCount = @ + 1])
       IN [S1 EXCEPT !.run.pc = "pause"]
  ELSE Finish(S)

\* updatePrice resolved or threw: success count and pacing timer, or catch
OnUpdateResult(S, r) ==
  IF r.ok
  THEN LET S1 == SetState(S, [S.modal EXCEPT !.doneCount = @ + 1])
       IN [S1 EXCEPT !.run.pc = "pause"]
  ELSE LineError(S, r.msg)

\* the preserveCurrentPrice the running handleBulkEdit closes over
ClosurePreserve_Live(S) == S.modal.preserveCurrentPrice

ClosurePreserve(S) == S.run.preserveCurrentPrice

\* whether the id submitted is that of an element of the list
InList(id, pricePoints) == \E k \in 1..Len(pricePoints) : pricePoints[k].id = id

\* bestMatch.id
BestId(bestMatch) == bestMatch.value.id

\* variant: updatePrice is called without await, the loop goes straight on
OnFetchResult_NoAwait(S, o, r) ==
  LET in == S.run.inputs[S.run.i]
      isNull == ~(r.ok /\ o.name = "pricePoints")
      pricePoints == r.pricePoints
  IN IF isNull \/ Len(pricePoints) = 0
     THEN LineError(S, <<"No price points found for territory", in.territory>>)
     ELSE LET bestMatch == findClosestPricePoint(in.desiredPrice, pricePoints)
              S1 == [S EXCEPT !.hist.fetchRes = [col |-> o.col, target |-> o.target]]
              p == POST(S1, S.run.i, IapId, in.territory, BestId(bestMatch),
                        ClosurePreserve(S))
              S2 == SetState(p.S, [p.S.modal EXCEPT !.doneCount = @ + 1])
          IN IF bestMatch.threw THEN LineError(S, bestMatch.msg)
             ELSE Loop(S2, S.run.i + 1)

\* what fetchPricePoints gave the loop for the current line, and the message
\* of the response it was made from
Fetched(S, isNull, r) ==
  [S EXCEPT !.hist.lastFetch =
     [line |-> S.run.i,
      kind |-> IF isNull THEN "null"
               ELSE IF Len(r.pricePoints) = 0 THEN "empty" ELSE "some",
      msg |-> r.msg]]

\* variant: only a null result is rejected, an empty list goes to the matcher
OnFetchResult_NoEmptyCheck(S0, o, r) ==
  LET in == S0.run.inputs[S0.run.i]
      isNull == ~(r.ok /\ o.name = "pricePoints")
      pricePoints == r.pricePoints
      S == Fetched(S0, isNull, r)
  IN IF isNull
     THEN LineError(S, <<"No price points found for territory", in.territory>>)
     ELSE LET bestMatch == findClosestPricePoint(in.desiredPrice, pricePoints)
              S1 == [S EXCEPT !.run.pc = "update",
                              !.hist.fetchRes = [col |-> o.col, target |-> o.target]]
              p == POST(S1, S.run.i, IapId, in.territory, BestId(bestMatch),
                        ClosurePreserve(S))
          IN IF bestMatch.threw THEN LineError(S, bestMatch.msg)
             ELSE IF p.done THEN OnUpdateResult(p.S, p.result)
             ELSE [p.S EXCEPT !.hist.fromCatalog =
                     \A u \in p.S.ops : (u.line = S.run.i /\ u.name = "update") =>
                                          InList(u.pricePointId, pricePoints)]

\* fetchPricePoints returned: empty check, match, submit the update
OnFetchResult(S0, o, r) ==
  LET in == S0.run.inputs[S0.run.i]
      \* null when the request failed, undefined when the body has no pricePoints
      isNull == ~(r.ok /\ o.name = "pricePoints")
      pricePoints == r.pricePoints
      S == Fetched(S0, isNull, r)
  IN IF isNull \/ Len(pricePoints) = 0
     THEN LineError(S, <<"No price points found for territory", in.territory>>)
     ELSE LET bestMatch == findClosestPricePoint(in.desiredPrice, pricePoints)
              S1 == [S EXCEPT !.run.pc = "update",
                              !.hist.fetchRes = [col |-> o.col, target |-> o.target]]
              p == POST(S1, S.run.i, IapId, in.territory, BestId(bestMatch),
                        ClosurePreserve(S))
          IN IF bestMatch.threw THEN LineError(S, bestMatch.msg)
             ELSE IF p.done THEN OnUpdateResult(p.S, p.result)
             ELSE [p.S EXCEPT !.hist.fromCatalog =
                     \A u \in p.S.ops : (u.line = S.run.i /\ u.name = "update") =>
                                          InList(u.pricePointId, pricePoints)]

\* ---------------------------------------------------------------------
\* Price listings
\* ---------------------------------------------------------------------
\* null, and the id of a relationship the vendor left out (undefined)
Null == "null"
Undefined == ""

\* included.find(item => types has item.type && item.id === id): the first
\* element that matches, or none
FindFirst(included, types, id) ==
  LET k == FindIndex([j \in DOMAIN included |->
                        included[j].type \in types /\ included[j].id = id], TRUE)
  IN IF k = 0 THEN [found |-> FALSE,
                    item |-> [type |-> "", id |-> Undefined, customerPrice |-> Undefined]]
     ELSE [found |-> TRUE, item |-> included[k]]

\* price.relationships[isSubscription ? 'subscriptionPricePoint'
\*                                      : 'inAppPurchasePricePoint']?.data?.id
PricePointRel(price, isSubscription) ==
  IF isSubscription THEN price.subscriptionPricePoint
  ELSE price.inAppPurchasePricePoint

\* variant: the price point is looked up under either relationship and type,
\* as findUSPricePoint does
MapPrice_EitherKind(price, included, isSubscription) ==
  LET territoryId == price.territory
      pricePointId == IF price.subscriptionPricePoint # Undefined
                      THEN price.subscriptionPricePoint
                      ELSE price.inAppPurchasePricePoint
      territory == FindFirst(included, {"territories"}, territoryId)
      pricePoint == FindFirst(included, {"subscriptionPricePoints", "inAppPurchasePricePoints"},
                              pricePointId)
  IN IF ~territory.found \/ ~pricePoint.found THEN <<>>
     ELSE << [id |-> price.id, customerPrice |-> pricePoint.item.customerPrice,
              territory |-> territory.item.id,
              pricePointId |-> pricePoint.item.id] >>

\* The callback of pricesData.data.map: the mapped price, or null (here the
\* empty sequence, so that filter(Boolean) is concatenation)
MapPrice(price, included, isSubscription) ==
  LET territoryId == price.territory
      pricePointId == PricePointRel(price, isSubscription)
      territory == FindFirst(included, {"territories"}, territoryId)
      pricePoint == FindFirst(included, {IF isSubscription THEN "subscriptionPricePoints"
                                         ELSE "inAppPurchasePricePoints"},
                              pricePointId)
  IN IF ~territory.found \/ ~pricePoint.found THEN <<>>
     ELSE << [id |-> price.id, customerPrice |-> pricePoint.item.customerPrice,
              territory |-> territory.item.id,
              pricePointId |-> pricePoint.item.id] >>

\* pricesData.data.map(..).filter(Boolean)
RECURSIVE MapPrices(_, _, _)
MapPrices(data, included, isSubscription) ==
  IF data = <<>> THEN <<>>
  ELSE MapPrice(Head(data), included, isSubscription)
         \o MapPrices(Tail(data), included, isSubscription)

\* new URL(link).searchParams.get(name): the value of the first parameter
\* of that name, or null
SearchParam(params, name) ==
  LET k == FindIndex([j \in DOMAIN params |-> params[j].key], name)
  IN IF k = 0 THEN Null ELSE params[k].value

\* The body of the price listing of one product
PricesResponse(body, isSubscription) ==
  [ pc |-> "done", rows |-> <<>>,
    prices |-> MapPrices(body.data, body.included, isSubscription),
    hasMore |-> body.next.present,
    nextCursor |-> IF body.next.present THEN SearchParam(body.next.params, "cursor")
                   ELSE Null ]

\* usPrice of a row: '-', `$${customerPrice}`, or not yet known
Dash == <<"-">>
Dollar(customerPrice) == <<"$", customerPrice>>
Pending == <<"?">>

RemovedStates == {"DEVELOPER_REMOVED_FROM_SALE", "DEVELOPER_ACTION_NEEDED", "DELETED"}

\* The states a product of the vendor's list can be in
ProductStates == {"READY_FOR_SALE"} \cup RemovedStates

\* priceData.data || [], priceData.included || []
NoListBody == [data |-> <<>>, included |-> <<>>]

\* The territory of the price is in the included set with id 'USA' or 'US'
IsUSPrice(price, included) ==
  LET territory == FindFirst(included, {"territories"}, price.territory)
  IN territory.found /\ territory.item.id \in {"USA", "US"}

\* findUSPrice: the logging map reads relationships.territory.data.id of
\* every price and throws on one that has none
findUSPrice(data, included) ==
  IF \E k \in DOMAIN data : data[k].territory = Undefined
  THEN [threw |-> TRUE, found |-> FALSE, k |-> 0]
  ELSE LET k == FindIndex([j \in DOMAIN data |-> IsUSPrice(data[j], included)], TRUE)
       IN [threw |-> FALSE, found |-> k > 0, k |-> k]

\* findUSPricePoint: the included price point, of either kind, that the US
\* price relates to
findUSPricePoint(usPrice, included) ==
  LET id == IF usPrice.subscriptionPricePoint # Undefined
            THEN usPrice.subscriptionPricePoint
            ELSE usPrice.inAppPurchasePricePoint
  IN FindFirst(included, {"subscriptionPricePoints", "inAppPurchasePricePoints"}, id)

\* A callback of the Promise.all has returned its row; the listing is
\* answered when all have
ListRow(S, slot, usPrice) ==
  LET rows == [S.listing.rows EXCEPT ![slot].usPrice = usPrice]
      S1 == [S EXCEPT !.listing.rows = rows]
  IN IF \A k \in DOMAIN rows : rows[k].usPrice # Pending
     THEN [S1 EXCEPT !.listing.pc = "done", !.response = Ok(<<>>)]
     ELSE S1

\* variant: a product whose prices cannot be fetched fails the listing
OnPriceError_Rethrow(S, slot) ==
  [S EXCEPT !.listing.pc = "done", !.ops = {},
            !.response = Err("Failed to fetch current prices")]

\* catch (priceError): the row shows a dash
OnPriceError(S, slot) == ListRow(S, slot, Dash)

\* getCurrentPrices has returned for the product of the row
OnListPrices(S, slot, body) ==
  LET usPrice == findUSPrice(body.data, body.included)
      usPricePoint == IF usPrice.found
                      THEN findUSPricePoint(body.data[usPrice.k], body.included)
                      ELSE FindFirst(<<>>, {}, Undefined)
  IN IF usPrice.threw THEN OnPriceError(S, slot)
     ELSE ListRow(S, slot, IF usPricePoint.found
                           THEN Dollar(usPricePoint.item.customerPrice) ELSE Dash)

\* ---------------------------------------------------------------------
\* Delivery of responses
\* ---------------------------------------------------------------------
\* The HTTP response of operation o reaches whoever awaits it
OnResult(S, o, r) ==
  IF o.slot > 0 THEN (IF r.ok THEN S ELSE OnPriceError(S, o.slot))
  ELSE IF o.line = 0 THEN [S EXCEPT !.response = r]
  ELSE IF S.run.pc = "fetch" /\ o.line = S.run.i /\ o.name \in {"pricePoints", "prices"}
       THEN OnFetchResult(S, o, r)
  ELSE IF S.run.pc = "update" /\ o.line = S.run.i /\ o.name = "update"
       THEN OnUpdateResult(S, r)
  ELSE S

Cur ==
  [ modal |-> modal, run |-> run, ops |-> ops, response |-> response,
    hist |-> hist, listing |-> listing ]

Apply(S) ==
  /\ modal' = S.modal
  /\ run' = S.run
  /\ ops' = S.ops
  /\ response' = S.response
  /\ hist' = S.hist
  /\ listing' = S.listing
  /\ UNCHANGED <<isSub, groups, clock, csvText, orphans, vendor>>

\* The state after the code that runs when the vendor answers the call of
\* operation o
Delivered(S0, o, ok, step) ==
  LET S == [S0 EXCEPT !.hist.lastResp = [call |-> o.call, ok |-> ok],
                      !.hist.writes = IF ~step.done /\ step.op.call = "write"
                                      THEN Append(@, o.line) ELSE @,
                      !.hist.failedCalls = IF ~ok /\ o.line = 0 /\ o.page < 2
                                           THEN @ \cup {o.call} ELSE @,
                      !.hist.failedSlots = IF ~ok /\ o.slot > 0 /\ o.call # "subs"
                                           THEN @ \cup {o.slot} ELSE @] IN
  IF step.done
  THEN OnResult([S EXCEPT !.ops = @ \ {o}], step.op, step.result)
  ELSE [S EXCEPT !.ops = (@ \ {o}) \cup {step.op}]

DeliverFrom(S0, o, ok, step) == Apply(Delivered(S0, o, ok, step))

Deliver(o, ok, step) == DeliverFrom(Cur, o, ok, step)

\* The pages the vendor has served to the single-item request under way
Served(o, ok, items, next) ==
  IF ok /\ o.line = 0
  THEN [Cur EXCEPT !.hist.served = Append(@, [items |-> items, next |-> next])]
  ELSE Cur

\* ---------------------------------------------------------------------
\* Actions
\* ---------------------------------------------------------------------
\* variant: without the early return the empty run falls through the loop
handleBulkEdit_NoEarlyReturn ==
  /\ modal.mounted /\ ~modal.inProgress
  /\ run.pc \in {"idle", "done"}
  /\ LET inputs == parseCsv(csvText)
         m == [modal EXCEPT !.inProgress = TRUE, !.errors = <<>>,
                            !.doneCount = 0, !.totalCount = Len(inputs)]
         S == [Cur EXCEPT !.run = [pc |-> "loop", inputs |-> inputs, i |-> 0,
                                   preserveCurrentPrice |-> modal.preserveCurrentPrice],
                          !.hist = [NoHist EXCEPT !.supplied = modal.preserveCurrentPrice,
                                                  !.requests = hist.requests,
                                                  !.body = hist.body]]
     IN Apply(Loop([S EXCEPT !.modal = [m EXCEPT !.status = <<"Starting bulk updates...">>]], 1))

\* Click on "Start Bulk Edit" (disabled while inProgress)
handleBulkEdit ==
  /\ modal.mounted /\ ~modal.inProgress
  /\ run.pc \in {"idle", "done"}
  /\ LET inputs == parseCsv(csvText)
         m == [modal EXCEPT !.inProgress = TRUE, !.errors = <<>>,
                            !.doneCount = 0, !.totalCount = Len(inputs)]
         S == [Cur EXCEPT !.run = [pc |-> "loop", inputs |-> inputs, i |-> 0,
                                   preserveCurrentPrice |-> modal.preserveCurrentPrice],
                          !.hist = [NoHist EXCEPT !.supplied = modal.preserveCurrentPrice,
                                                  !.requests = hist.requests,
                                                  !.body = hist.body]]
     IN IF inputs = <<>>
        THEN Apply([S EXCEPT !.modal = [m EXCEPT !.inProgress = FALSE,
                                                 !.status = <<"No valid lines found in CSV">>],
                             !.run.pc = "done"])
        ELSE Apply(Loop([S EXCEPT !.modal = [m EXCEPT !.status = <<"Starting bulk updates...">>]], 1))

\* setTimeout(res, 1000) fires: the loop goes on to the next line
PauseElapsed ==
  /\ run.pc = "pause"
  /\ Apply(Loop([Cur EXCEPT !.hist.pausedAfter = run.i], run.i + 1))

\* Backdrop or X of Modal: the parent stops rendering BulkEditModal
Close ==
  /\ modal.mounted
  /\ modal' = [FreshModal EXCEPT !.mounted = FALSE]
  /\ UNCHANGED <<isSub, groups, clock, csvText, run, ops, response, hist, orphans, vendor, listing>>

\* The vendor answers a page request after the first with an empty page whose
\* next link leads back to a page already linked (a chain of links that
\* does not end): the while loop fetches it
RespPageLoop ==
  \E o \in ops : /\ o.call = "page"
                 /\ o.page >= MaxPages
                 /\ LET step == OnPage(o, TRUE, <<>>, TRUE)
                    IN DeliverFrom(Cur, o, TRUE,
                         [step EXCEPT !.op.page = IF o.page = MaxPages
                                                  THEN MaxPages + 1 ELSE MaxPages])

\* whether a handleBulkEdit invocation is between its start and its end
Active(r) == r.pc \notin {"idle", "done"}

\* Click on "Bulk Edit" of the pricing page after the modal was closed:
\* setBulkModalOpen(true) mounts a new BulkEditModal, whose state is fresh
\* (inProgress false, Start enabled); a handleBulkEdit of the closed
\* instance that is still running goes on with its own closure
Reopen ==
  /\ ~modal.mounted
  /\ modal' = FreshModal
  /\ IF Active(run)
     THEN /\ Len(orphans) < MaxOrphans
          /\ orphans' = Append(orphans, [run |-> run, ops |-> ops, hist |-> hist])
          /\ run' = IdleRun
          /\ ops' = {}
          /\ hist' = NoHist
     ELSE /\ run' = IdleRun
          /\ UNCHANGED <<ops, hist, orphans, vendor, listing>>
  /\ UNCHANGED <<isSub, groups, clock, csvText, response, vendor, listing>>

\* the state a handleBulkEdit of a closed instance runs on
OrphanS(k) ==
  [ modal |-> [FreshModal EXCEPT !.mounted = FALSE],
    run |-> orphans[k].run, ops |-> orphans[k].ops,
    response |-> NoResponse, hist |-> orphans[k].hist, listing |-> listing ]

OrphanApply(k, S) ==
  /\ orphans' = [orphans EXCEPT ![k] = [run |-> S.run, ops |-> S.ops, hist |-> S.hist]]
  /\ UNCHANGED <<isSub, groups, clock, csvText, modal, run, ops, response, hist,
                 vendor, listing>>

\* The vendor answers a call of a run whose modal instance was closed
OrphanAnswer ==
  \E k \in DOMAIN orphans :
    \E o \in orphans[k].ops : \E ok \in BOOLEAN, items \in PageChoices(o.page), next \in BOOLEAN :
      /\ (next => o.call = "page" /\ o.page < MaxPages)
      /\ ((~ok \/ o.call # "page") => items = <<>> /\ ~next)
      /\ LET step == CASE o.call = "product" -> OnProduct(o, ok)
                       [] o.call = "groups" -> OnGroups(o, ok)
                       [] o.call = "subs" -> OnSubs(o, ok)
                       [] o.call = "page" -> OnPage(o, ok, items, next)
                       [] o.call = "write" -> OnWrite(o, ok)
                       [] OTHER -> OnPrices(o, ok)
         IN OrphanApply(k, Delivered(OrphanS(k), o, ok, step))

\* The pacing timer of a run whose modal instance was closed fires
OrphanPause ==
  \E k \in DOMAIN orphans :
    /\ orphans[k].run.pc = "pause"
    /\ LET S == OrphanS(k)
       IN OrphanApply(k, Loop([S EXCEPT !.hist.pausedAfter = S.run.i], S.run.i + 1))

\* Click on the "Preserve current price" checkbox (enabled during a run):
\* the next render and its closures see the new value
TogglePreserve ==
  /\ modal.mounted
  /\ modal' = [modal EXCEPT !.preserveCurrentPrice = ~@]
  /\ UNCHANGED <<isSub, groups, clock, csvText, run, ops, response, hist, orphans, vendor, listing>>

RespProduct ==
  \E o \in ops : o.call = "product" /\ \E ok \in BOOLEAN : Deliver(o, ok, OnProduct(o, ok))

RespGroups ==
  \E o \in ops : o.call = "groups" /\ \E ok \in BOOLEAN : Deliver(o, ok, OnGroups(o, ok))

RespSubs ==
  \E o \in ops : o.call = "subs" /\ \E ok \in BOOLEAN : Deliver(o, ok, OnSubs(o, ok))

RespPage ==
  \E o \in ops : /\ o.call = "page"
                 /\ \E ok \in BOOLEAN, items \in PageChoices(o.page), next \in BOOLEAN :
                      /\ (next => o.page < MaxPages)
                      /\ (~ok => items = <<>> /\ ~next)
                      /\ DeliverFrom(Served(o, ok, items, next), o, ok,
                                     OnPage(o, ok, items, next))

RespWrite ==
  \E o \in ops : o.call = "write" /\ \E ok \in BOOLEAN : Deliver(o, ok, OnWrite(o, ok))

RespPrices ==
  \E o \in ops : o.call = "prices" /\ o.slot = 0 /\ \E ok \in BOOLEAN : Deliver(o, ok, OnPrices(o, ok))

\* What a price of a vendor page can relate to
PriceChoices ==
  { [territory |-> t, subscriptionPricePoint |-> rel[1], inAppPurchasePricePoint |-> rel[2]] :
      t \in {"USA", "CAN", Undefined},
      rel \in {<<"p1", Undefined>>, <<Undefined, "p1">>, <<Undefined, Undefined>>} }

\* The resources a vendor page can include
IncludedChoices ==
  { [type |-> "territories", id |-> "USA", customerPrice |-> Undefined],
    [type |-> "territories", id |-> "CAN", customerPrice |-> Undefined],
    [type |-> "subscriptionPricePoints", id |-> "p1", customerPrice |-> "9.99"],
    [type |-> "inAppPurchasePricePoints", id |-> "p1", customerPrice |-> "4.99"] }

\* the vendor numbers the prices of a page
WithIds(data) == [k \in DOMAIN data |-> [id |-> k] @@ data[k]]

\* The bodies the vendor can answer the prices call of a listed product
\* with: a US price with its price point (of either kind), no US price, a US
\* price whose price point is not included, a price without territory
ListBodies ==
  LET price(t, sub, iap) == [territory |-> t, subscriptionPricePoint |-> sub,
                             inAppPurchasePricePoint |-> iap]
      terr(id) == [type |-> "territories", id |-> id, customerPrice |-> Undefined]
      subPoint == [type |-> "subscriptionPricePoints", id |-> "p1", customerPrice |-> "9.99"]
      iapPoint == [type |-> "inAppPurchasePricePoints", id |-> "p1", customerPrice |-> "4.99"]
  IN { NoListBody,
       [data |-> WithIds(<<price("USA", "p1", Undefined)>>),
        included |-> <<terr("USA"), subPoint>>],
       [data |-> WithIds(<<price("CAN", Undefined, "p1"), price("USA", Undefined, "p1")>>),
        included |-> <<terr("CAN"), iapPoint, terr("USA")>>],
       [data |-> WithIds(<<price("CAN", Undefined, "p1")>>),
        included |-> <<terr("CAN"), iapPoint>>],
       [data |-> WithIds(<<price("USA", "p1", Undefined)>>),
        included |-> <<terr("USA")>>],
       [data |-> WithIds(<<price("USA", "p1", Undefined), price(Undefined, "p1", Undefined)>>),
        included |-> <<terr("USA"), subPoint>>] }

\* GET without iapId: the list of the app's products is requested
ListRequest ==
  /\ listing.pc \in {"idle", "done"}
  /\ ops = {}
  /\ listing' = [NoListing EXCEPT !.pc = "iaps"]
  /\ response' = NoResponse
  /\ hist' = NoHist
  /\ vendor' = NoVendor
  /\ UNCHANGED <<isSub, groups, clock, csvText, modal, run, ops, orphans>>

\* The vendor answers the list request: a failure fails the listing;
\* otherwise every product gets its row, at once with a dash in the
\* removed states, and after getCurrentPrices in the others
RespIaps ==
  /\ listing.pc = "iaps"
  /\ \E ok \in BOOLEAN, products \in SeqsUpTo(ProductStates, MaxProducts) :
       /\ (~ok => products = <<>>)
       /\ IF ~ok
          THEN /\ listing' = [listing EXCEPT !.pc = "done"]
               /\ response' = Err("Failed to fetch IAPs")
               /\ UNCHANGED <<ops, hist, vendor>>
          ELSE LET rows == [k \in DOMAIN products |->
                              [id |-> k, state |-> products[k],
                               usPrice |-> IF products[k] \in RemovedStates
                                           THEN Dash ELSE Pending]]
                   called == {k \in DOMAIN products : products[k] \notin RemovedStates}
               IN /\ vendor' = [NoVendor EXCEPT !.products = products,
                                                !.bodies = [k \in DOMAIN products |-> NoListBody]]
                  /\ ops' = {[NewOp("currentPrices", 0, <<"US">>, 0) EXCEPT !.slot = k] :
                                k \in called}
                  /\ hist' = [hist EXCEPT !.calledSlots = called]
                  /\ listing' = [listing EXCEPT !.rows = rows,
                                                !.pc = IF called = {} THEN "done" ELSE "prices"]
                  /\ response' = IF called = {} THEN Ok(<<>>) ELSE response
  /\ UNCHANGED <<isSub, groups, clock, csvText, modal, run, orphans>>

\* The vendor answers the prices call of getCurrentPrices for a product of
\* the list
RespListPrices ==
  \E o \in ops :
    /\ o.call = "prices" /\ o.slot > 0
    /\ \E ok \in BOOLEAN, body \in ListBodies :
         /\ (~ok => body = NoListBody)
         /\ LET S1 == Delivered(Cur, o, ok, OnPrices(o, ok))
                S2 == IF ok THEN OnListPrices(S1, o.slot, body) ELSE S1
            IN /\ modal' = S2.modal /\ run' = S2.run /\ ops' = S2.ops
               /\ response' = S2.response /\ hist' = S2.hist
               /\ listing' = S2.listing
               /\ vendor' = [vendor EXCEPT !.bodies[o.slot] = body]
    /\ UNCHANGED <<isSub, groups, clock, csvText, orphans>>

\* The prices of the product have arrived from the vendor: map them and
\* answer the listing request
ListPrices ==
  /\ listing.pc = "idle"
  /\ vendor.data # <<>> \/ vendor.included # <<>> \/ vendor.next.present
  /\ listing' = PricesResponse(vendor, isSub)
  /\ UNCHANGED <<isSub, groups, clock, csvText, modal, run, ops, response, hist,
                 orphans, vendor>>

\* A single-item request (outside bulk mode) reaches a route handler
Request ==
  /\ ops = {}
  /\ hist.requests < MaxRequests
  /\ LET S0 == [Cur EXCEPT !.response = NoResponse,
                           !.hist.requests = @ + 1,
                           !.hist.lastResp = NoResp,
                           !.hist.served = <<>>,
                           !.hist.writes = <<>>,
                           !.hist.failedCalls = {},
                           !.hist.body = NoBody]
     IN \/ \E name \in {"pricePoints", "prices", "currentPrices"} :
             Apply([S0 EXCEPT !.ops = {NewOp(name, 0, <<"US">>, 0)}])
        \/ \E method \in {"POST", "PATCH"}, iapId \in {NoId, IapId},
              territory \in {<<>>, <<"US">>}, pricePointId \in {0, 1},
              preserveCurrentPrice \in BOOLEAN :
             LET S1 == [S0 EXCEPT !.hist.body =
                          [method |-> method, iapId |-> iapId, territory |-> territory,
                           pricePointId |-> pricePointId,
                           preserveCurrentPrice |-> preserveCurrentPrice]]
                 p == IF method = "POST"
                      THEN POST(S1, 0, iapId, territory, pricePointId, preserveCurrentPrice)
                      ELSE PATCH(S1, 0, iapId, territory, pricePointId, preserveCurrentPrice)
             IN Apply(IF p.done THEN [p.S EXCEPT !.response = p.result] ELSE p.S)

\* const inputs = parseCsv(csvText), on its own
Parse ==
  /\ run.pc = "idle"
  /\ run' = [run EXCEPT !.pc = "parsed", !.inputs = parseCsv(csvText)]
  /\ UNCHANGED <<isSub, groups, clock, csvText, modal, ops, response, hist, orphans, vendor, listing>>

\* const bestMatch = findClosestPricePoint(desiredPrice, pricePoints), on its
\* own: the desired price is that of the first input, the list the one held
\* in the response
Match ==
  /\ run.pc = "idle"
  /\ run' = [run EXCEPT !.pc = "matched"]
  /\ hist' = [hist EXCEPT !.bestMatch =
                findClosestPricePoint(run.inputs[1].desiredPrice, response.pricePoints)]
  /\ UNCHANGED <<isSub, groups, clock, csvText, modal, ops, response, orphans, vendor, listing>>

\* ---------------------------------------------------------------------
\* Specifications
\* ---------------------------------------------------------------------
GroupChoices == SeqsUpTo({TargetPid, OtherPid}, MaxSubs)
RawLines ==
  { <<"US", ",", " ", "9", ".", "5", "0">>, <<"XX", ",", "9", ".", "9", "9">>,
    <<"badline">>, <<>> }

\* lines.join('\n')
RECURSIVE JoinLines(_)
JoinLines(ls) ==
  IF ls = <<>> THEN <<>>
  ELSE IF Len(ls) = 1 THEN ls[1]
       ELSE ls[1] \o <<"LF">> \o JoinLines(Tail(ls))

World ==
  /\ isSub \in BOOLEAN
  /\ groups \in SeqsUpTo(GroupChoices, MaxGroups)

\* A server whose local time is UTC, at noon
NoonUtc == [hour |-> 12, offNow |-> 0, offThen |-> 0]

\* Servers in UTC, in a zone ahead of UTC, and in a zone behind UTC whose
\* daylight saving time ends or begins within the next two days
Clocks ==
  { [hour |-> h, offNow |-> z[1], offThen |-> z[2]] :
      h \in {0, 12, 23}, z \in {<<0, 0>>, <<9, 9>>, <<-4, -5>>, <<-5, -4>>} }

\* A bulk-edit modal has just been opened on the product
Init ==
  /\ World
  /\ clock = NoonUtc
  /\ csvText \in {JoinLines(ls) : ls \in SeqsUpTo(RawLines, MaxLines)}
  /\ modal = FreshModal
  /\ run = IdleRun
  /\ ops = {}
  /\ response = NoResponse
  /\ hist = NoHist
  /\ orphans = <<>>
  /\ vendor = NoVendor
  /\ listing = NoListing

Next ==
  \/ handleBulkEdit
  \/ PauseElapsed
  \/ Close
  \/ RespProduct
  \/ RespGroups
  \/ RespSubs
  \/ RespPage
  \/ RespWrite

Spec == Init /\ [][Next]_vars

\* Single-item requests against the route handlers, no bulk modal
InitOps ==
  /\ World
  /\ clock \in Clocks
  /\ csvText = <<>>
  /\ modal = [FreshModal EXCEPT !.mounted = FALSE]
  /\ run = IdleRun
  /\ ops = {}
  /\ response = NoResponse
  /\ hist = NoHist
  /\ orphans = <<>>
  /\ vendor = NoVendor
  /\ listing = NoListing

\* The parser applied to every short text, and to a five-line text
Chars == {"LF", ",", " ", "US", "9", ".", "x", "Infinity"}
FiveLines ==
  JoinLines(<< <<"US", ",", " ", "9", ".", "9", "9">>,
               <<"CA", ",", "1", "0", ".", "4", "9">>,
               <<>>,
               <<"badline">>,
               <<"GB", ",", " ", "8", ".", "9", "9">> >>)

InitParse ==
  /\ isSub = FALSE
  /\ groups = <<>>
  /\ clock = NoonUtc
  /\ csvText \in SeqsUpTo(Chars, MaxChars) \cup {FiveLines}
  /\ modal = FreshModal
  /\ run = IdleRun
  /\ ops = {}
  /\ response = NoResponse
  /\ hist = NoHist
  /\ orphans = <<>>
  /\ vendor = NoVendor
  /\ listing = NoListing

NextParse == Parse

SpecParse == InitParse /\ [][NextParse]_vars

\* The matcher applied to every desired price and candidate list
DesiredPrices == {900, 950, 999, 1200, Infinity}
Candidates ==
  {PricePoint(1), PricePoint(2), PricePoint(3), [id |-> 4, customerPrice |-> 900]}

InitMatch ==
  /\ isSub = FALSE
  /\ groups = <<>>
  /\ clock = NoonUtc
  /\ csvText = <<>>
  /\ modal = FreshModal
  /\ \E d \in DesiredPrices :
       run = [IdleRun EXCEPT !.inputs = <<[territory |-> <<"US">>, desiredPrice |-> d]>>]
  /\ ops = {}
  /\ \E pp \in SeqsUpTo(Candidates, MaxCands) : response = Ok(pp)
  /\ hist = NoHist
  /\ orphans = <<>>
  /\ vendor = NoVendor
  /\ listing = NoListing

NextMatch == Match

SpecMatch == InitMatch /\ [][NextMatch]_vars

NextOps ==
  \/ Request
  \/ RespProduct
  \/ RespGroups
  \/ RespSubs
  \/ RespPage
  \/ RespWrite
  \/ RespPrices

SpecOps == InitOps /\ [][NextOps]_vars

\* The pricing page of a one-time purchase, the modal open on one line
InitReopen ==
  /\ isSub = FALSE
  /\ groups = <<>>
  /\ clock = NoonUtc
  /\ csvText = <<"US", ",", " ", "9", ".", "5", "0">>
  /\ modal = FreshModal
  /\ run = IdleRun
  /\ ops = {}
  /\ response = NoResponse
  /\ hist = NoHist
  /\ orphans = <<>>
  /\ vendor = NoVendor
  /\ listing = NoListing

NextReopen ==
  \/ handleBulkEdit
  \/ PauseElapsed
  \/ Close
  \/ Reopen
  \/ RespProduct
  \/ RespPage
  \/ RespWrite
  \/ OrphanAnswer
  \/ OrphanPause

SpecReopen == InitReopen /\ [][NextReopen]_vars

\* The next links a vendor page can carry: none, one without a cursor
\* parameter, one with a cursor
NextLinks ==
  { [present |-> FALSE, params |-> <<>>],
    [present |-> TRUE, params |-> << [key |-> "limit", value |-> "50"] >>],
    [present |-> TRUE, params |-> << [key |-> "cursor", value |-> "c2"],
                                     [key |-> "limit", value |-> "50"] >>] }

\* A page of prices of the product has been fetched from the vendor
InitPage ==
  /\ isSub \in BOOLEAN
  /\ groups = <<>>
  /\ clock = NoonUtc
  /\ csvText = <<>>
  /\ modal = [FreshModal EXCEPT !.mounted = FALSE]
  /\ run = IdleRun
  /\ ops = {}
  /\ response = NoResponse
  /\ hist = NoHist
  /\ orphans = <<>>
  /\ \E data \in SeqsUpTo(PriceChoices, MaxPrices),
        included \in SeqsUpTo(IncludedChoices, MaxIncluded),
        next \in NextLinks :
       vendor = [products |-> <<>>, bodies |-> <<>>, data |-> WithIds(data),
                 included |-> included, next |-> next]
  /\ listing = NoListing

NextPage == ListPrices

SpecPage == InitPage /\ [][NextPage]_vars

\* The list of products is requested; the products are all of one kind
InitList ==
  /\ isSub \in BOOLEAN
  /\ groups \in {<<>>, << <<TargetPid>> >>}
  /\ clock = NoonUtc
  /\ csvText = <<>>
  /\ modal = [FreshModal EXCEPT !.mounted = FALSE]
  /\ run = IdleRun
  /\ ops = {}
  /\ response = NoResponse
  /\ hist = NoHist
  /\ orphans = <<>>
  /\ vendor = NoVendor
  /\ listing = NoListing

NextList ==
  \/ ListRequest
  \/ RespIaps
  \/ RespProduct
  \/ RespGroups
  \/ RespSubs
  \/ RespListPrices

SpecList == InitList /\ [][NextList]_vars

\* Every vendor call is answered
Answer ==
  \/ RespProduct
  \/ RespGroups
  \/ RespSubs
  \/ RespPage
  \/ RespPageLoop
  \/ RespWrite

\* The modal is open on a text of valid lines
InitLive ==
  /\ World
  /\ clock = NoonUtc
  /\ csvText = JoinLines([k \in 1..MaxLines |->
                            IF k % 2 = 1 THEN <<"US", ",", " ", "9", ".", "5", "0">>
                            ELSE <<"XX", ",", "9", ".", "9", "9">>])
  /\ modal = FreshModal
  /\ run = IdleRun
  /\ ops = {}
  /\ response = NoResponse
  /\ hist = NoHist
  /\ orphans = <<>>
  /\ vendor = NoVendor
  /\ listing = NoListing

NextLive ==
  \/ handleBulkEdit
  \/ PauseElapsed
  \/ Close
  \/ RespProduct
  \/ RespGroups
  \/ RespSubs
  \/ RespPage
  \/ RespPageLoop
  \/ RespWrite

\* Every vendor call returns and the pacing timer fires
SpecLive ==
  InitLive /\ [][NextLive]_vars /\ WF_vars(Answer) /\ WF_vars(PauseElapsed)

\* A text of valid lines, for two territories in turn
ValidLines ==
  [ k \in 1..MaxLines |-> IF k % 2 = 1 THEN <<"US", ",", " ", "9", ".", "5", "0">>
                          ELSE <<"XX", ",", "9", ".", "9", "9">> ]

\* Either the modal is open on a text of valid lines, or no modal has been
\* opened and the route serves other callers
InitToggle ==
  /\ World
  /\ clock = NoonUtc
  /\ csvText = JoinLines(ValidLines)
  /\ modal \in {FreshModal, [FreshModal EXCEPT !.mounted = FALSE]}
  /\ run = IdleRun
  /\ ops = {}
  /\ response = NoResponse
  /\ hist = NoHist
  /\ orphans = <<>>
  /\ vendor = NoVendor
  /\ listing = NoListing

\* The checkbox can be clicked at any time while the modal is open
NextToggle ==
  \/ handleBulkEdit
  \/ TogglePreserve
  \/ PauseElapsed
  \/ Close
  \/ (~modal.mounted /\ run.pc = "idle" /\ Request)
  \/ RespProduct
  \/ RespGroups
  \/ RespSubs
  \/ RespPage
  \/ RespWrite
  \/ RespPrices

SpecToggle == InitToggle /\ [][NextToggle]_vars

\* ---------------------------------------------------------------------
\* Properties
\* ---------------------------------------------------------------------
Upto(n) == [k \in 1..n |-> k]
Resolving == {"product", "groups", "subs"}
Resolved == {"page", "prices", "write"}

\* Lines of the run whose iteration is over
FinishedLines ==
  CASE run.pc \in {"fetch", "update"} -> run.i - 1
    [] run.pc = "pause" -> run.i
    [] run.pc = "done" -> Len(run.inputs)
    [] OTHER -> 0

\* C1: in a bulk run every parsed line is attempted exactly once, in input
\* order, whatever happened to the lines before it: the lines started so far
\* are 1..i, a finished run has started all of them, and every call in
\* flight is made for the territory of the line it belongs to.
C1_EveryLineAttemptedOnceInOrder ==
  /\ run.pc # "idle" => run.inputs = parseCsv(csvText)
  /\ run.pc \in {"fetch", "update", "pause"} =>
       /\ run.i \in 1..Len(run.inputs)
       /\ hist.attempts = Upto(run.i)
  /\ run.pc = "done" => hist.attempts = Upto(Len(run.inputs))
  /\ \A o \in ops : o.line > 0 => o.territory = run.inputs[o.line].territory

\* a run of two lines is over, its first line failed and its second succeeded
C1_Witness ==
  /\ run.pc = "done" /\ modal.mounted
  /\ Len(run.inputs) = 2
  /\ run.inputs[1].territory # run.inputs[2].territory
  /\ Len(modal.errors) = 1
  /\ modal.errors[1].territory = run.inputs[1].territory
  /\ modal.doneCount = 1

\* C2: at every point of a bulk run shown by the modal, succeeded plus the
\* number of error entries equals the number of finished lines, and at
\* completion it equals processed (the number of parsed lines).
C2_BulkAccounting ==
  modal.mounted =>
    /\ modal.doneCount + Len(modal.errors) = FinishedLines
    /\ run.pc = "done" =>
         /\ modal.totalCount = Len(parseCsv(csvText))
         /\ modal.doneCount + Len(modal.errors) = modal.totalCount

\* two valid lines, territory XX had no price points, the other succeeded
C2_Witness ==
  /\ run.pc = "done" /\ modal.mounted
  /\ modal.totalCount = 2 /\ modal.doneCount = 1
  /\ Len(modal.errors) = 1
  /\ modal.errors[1].territory = <<"XX">>
  /\ modal.errors[1].message = <<"No price points found for territory", <<"XX">>>>

\* C3: whenever line i >= 2 is being processed, the pause that follows line
\* i-1 has elapsed, whether line i-1 succeeded or failed.
C3_PauseAfterEveryLine ==
  (run.pc \in {"fetch", "update", "pause"} /\ run.i >= 2) =>
     hist.pausedAfter = run.i - 1

\* C4: within a bulk run at most one vendor request is outstanding, and it
\* belongs to the line the loop is at: no call of line i+1 is issued while
\* a call of line i is in flight.
C4_StrictlySequential ==
  /\ Cardinality(ops) <= 1
  /\ \A o \in ops :
       /\ o.line = run.i
       /\ run.pc = IF o.name = "update" THEN "update" ELSE "fetch"

\* the write of the second line of a run is in flight
C4_Witness ==
  \E o \in ops : o.line = 2 /\ o.call = "write"

\* An operation of line `o.line` ends in this step while resolving the product
ResolveFailed(o) ==
  /\ o \in ops /\ o.line > 0 /\ o.call \in Resolving
  /\ ~ \E n \in ops' : n.name = o.name /\ n.line = o.line

C6_SameResourceWithinLine ==
  \A o \in ops :
    (o.line > 0 /\ o.call = "write") =>
       hist.fetchRes = [col |-> o.col, target |-> o.target]

\* C7: for a subscription whose product is in some group, no group after the
\* first matching one is queried, and the resolved id is the id of the
\* matching subscription of that group.
C7_StopsAtFirstMatchingGroup ==
  (isSub /\ FirstMatchGroup > 0) =>
    \A o \in ops :
      /\ o.call = "subs" => o.g <= FirstMatchGroup
      /\ o.call \in Resolved =>
           o.resourceId = SubId(FirstMatchGroup, FindIndex(groups[FirstMatchGroup], TargetPid))

\* C8: for a subscription that no group contains, no prices, price-points or
\* write call is issued, and the operation does not succeed.
C8_NoMatchFailsWithoutCalls ==
  (isSub /\ FirstMatchGroup = 0) =>
    /\ \A o \in ops : o.call \notin Resolved
    /\ ~response.ok

\* C9: after a non-success response to a resolution call (product, group
\* list, a group's subscriptions) the operation is over with an error: no
\* further vendor call is in flight.
C9_FailureAbortsResolution ==
  (hist.lastResp.call \in Resolving /\ ~hist.lastResp.ok) =>
     (ops = {} /\ ~response.ok)

\* C10: for a product that is not an auto-renewable subscription no
\* subscription-group call is made and every call after resolution targets
\* inAppPurchases/{productId}, in every request made for it.
C10_OneTimePurchaseNoGroupScan ==
  ~isSub =>
    \A o \in ops :
      /\ o.call \notin {"groups", "subs"}
      /\ o.g = 0 /\ ~o.isSubscription /\ ~o.matched
      /\ o.call \in Resolved => (o.col = "inAppPurchases" /\ o.target = IapId)

\* the second request for a one-time purchase is resolved (groups exist)
C10_Witness ==
  /\ ~isSub /\ groups # <<>>
  /\ hist.requests = 2
  /\ \E o \in ops : o.call \in Resolved /\ o.target = IapId

\* C13: on a non-empty candidate list the matcher returns a candidate whose
\* absolute difference from the desired price is minimal, and every
\* candidate before it in the list is strictly farther away.
C13_ClosestFirstOnTies ==
  (run.pc = "matched" /\ response.pricePoints # <<>>) =>
    LET d == run.inputs[1].desiredPrice
        pps == response.pricePoints
    IN /\ ~hist.bestMatch.threw
       /\ \E k \in 1..Len(pps) :
            /\ hist.bestMatch.value = pps[k]
            /\ \A j \in 1..Len(pps) : Diff(d, pps[k]) <= Diff(d, pps[j])
            /\ \A j \in 1..(k-1) : Diff(d, pps[j]) > Diff(d, pps[k])

\* match(9.50, [10.00, 9.00, 11.00]) has returned 10.00
C13_Witness ==
  /\ run.pc = "matched"
  /\ run.inputs[1].desiredPrice = 950
  /\ response.pricePoints = <<PricePoint(2), PricePoint(1), PricePoint(3)>>
  /\ hist.bestMatch = Returned(PricePoint(2))

\* C14: on an empty candidate list the matcher throws, whatever the desired
\* price, and no price point is returned.
C14_EmptyCandidatesThrow ==
  (run.pc = "matched" /\ response.pricePoints = <<>>) =>
    (hist.bestMatch.threw /\ hist.bestMatch.value = NoPricePoint)

\* the matcher has been applied to an empty list
C14_Witness ==
  /\ run.pc = "matched"
  /\ response.pricePoints = <<>>
  /\ run.inputs[1].desiredPrice = 999
  /\ hist.bestMatch.threw

\* the rule by which a line is accepted: non-blank after trimming, exactly
\* two comma-separated fields, a price field that parses as a finite number
Accepted(line) ==
  LET t == Trim(line)
      parts == Split(t, ",")
  IN /\ t # <<>>
     /\ Len(parts) = 2
     /\ ParseFloat(Trim(parts[2])) \notin {NaN, Infinity}

RECURSIVE AcceptedEntries(_)
AcceptedEntries(lines) ==
  IF lines = <<>> THEN <<>>
  ELSE LET parts == Split(Trim(Head(lines)), ",")
           rest == AcceptedEntries(Tail(lines))
       IN IF Accepted(Head(lines))
          THEN <<[territory |-> Trim(parts[1]),
                  desiredPrice |-> ParseFloat(Trim(parts[2]))]>> \o rest
          ELSE rest

\* C20: the parsed inputs are exactly the accepted lines of the text, in
\* their order: a line is accepted if and only if it is non-blank after
\* trimming, has exactly two comma-separated fields and its price field
\* parses as a finite decimal number.
C20_AcceptsExactlyFiniteLines ==
  run.pc = "parsed" => run.inputs = AcceptedEntries(Split(csvText, "LF"))

\* all items of the pages served so far, in order
RECURSIVE Concat(_)
Concat(pages) ==
  IF pages = <<>> THEN <<>> ELSE Head(pages).items \o Concat(Tail(pages))

PageFailed == hist.lastResp.call = "page" /\ ~hist.lastResp.ok

\* C11: as long as no page request has failed, the catalog call asks for the
\* next page after every page that carries a next link, holding the
\* concatenation of the pages so far, and after the page without a next link
\* it returns exactly the concatenation of all pages served.
C11_AllPagesConcatenated ==
  (hist.served # <<>> /\ ~PageFailed) =>
    LET n == Len(hist.served) IN
    /\ \A k \in 1..(n-1) : hist.served[k].next
    /\ IF hist.served[n].next
       THEN \E o \in ops : /\ o.call = "page" /\ o.page = n + 1
                            /\ o.acc = Concat(hist.served)
       ELSE ops = {} /\ response = Ok(Concat(hist.served))

\* two pages of two and one items have been merged into three price points
C11_Witness ==
  /\ ~PageFailed /\ ops = {}
  /\ Len(hist.served) = 2
  /\ response = Ok(<<PricePoint(1), PricePoint(2), PricePoint(3)>>)

\* C12: when a page request fails no further page is requested; if it was
\* the first page the call fails with the upstream error, otherwise the call
\* succeeds with the pages fetched before the failure.
C12_PageFailureTruncates ==
  (PageFailed /\ hist.requests > 0) =>
    /\ ops = {}
    /\ IF hist.served = <<>>
       THEN response = Err("Failed to fetch price points")
       ELSE response = Ok(Concat(hist.served))

\* the second page failed and the first page's items were returned
C12_Witness ==
  /\ PageFailed
  /\ Len(hist.served) = 1
  /\ response = Ok(<<PricePoint(1), PricePoint(2)>>)

\* C15: when the catalog fetched for a line is empty, no update is submitted
\* and no vendor write is made for that line, the entry "No price points
\* found for territory <t>" is the line's error (while the modal is
\* mounted), and the loop is at the next line, or over after the last.
C15_EmptyCatalogFailsLineOnly ==
  hist.lastFetch.kind = "empty" =>
    LET k == hist.lastFetch.line
        in == run.inputs[k]
    IN /\ \A j \in DOMAIN hist.writes : hist.writes[j] # k
       /\ \A o \in ops : ~(o.line = k /\ o.name = "update")
       /\ modal.mounted =>
            /\ modal.errors # <<>>
            /\ modal.errors[Len(modal.errors)] =
                 [territory |-> in.territory, desiredPrice |-> in.desiredPrice,
                  message |-> <<"No price points found for territory", in.territory>>]
       /\ IF k = Len(run.inputs) THEN run.pc = "done"
          ELSE run.i = k + 1 /\ run.pc = "fetch"

\* line 1 of 2 got an empty catalog and line 2 is being fetched
C15_Witness ==
  /\ hist.lastFetch.line = 1 /\ hist.lastFetch.kind = "empty"
  /\ modal.mounted /\ Len(modal.errors) = 1
  /\ Len(run.inputs) = 2 /\ run.i = 2
  /\ modal.doneCount = 0

\* C16: the body of the vendor write has one of two shapes, chosen by the
\* resolved kind alone: for a subscription a subscriptionPrices creation with
\* the resolved subscription id, the price point id, the start date and
\* preserveCurrentPrice; for a one-time purchase a price creation with
\* territory, price point id and start date, without preserveCurrentPrice.
C16_PayloadShapeByKind ==
  \A o \in ops : o.call = "write" =>
    IF isSub
    THEN /\ o.payload =
              [ type |-> "subscriptionPrices", startDate |-> StartDate(clock),
                preserveCurrentPrice |-> hist.body.preserveCurrentPrice,
                subscription |-> o.resourceId,
                subscriptionPricePoint |-> hist.body.pricePointId ]
         /\ \E g \in 1..Len(groups) : \E k \in 1..Len(groups[g]) :
              groups[g][k] = TargetPid /\ o.resourceId = SubId(g, k)
    ELSE /\ o.payload =
              [ type |-> "inAppPurchasePrices", startDate |-> StartDate(clock),
                territory |-> hist.body.territory,
                pricePoint |-> hist.body.pricePointId ]
         /\ "preserveCurrentPrice" \notin DOMAIN o.payload

\* a subscription price creation that keeps the current price is in flight
C16_Witness ==
  \E o \in ops : /\ o.call = "write" /\ isSub
                  /\ o.payload.type = "subscriptionPrices"
                  /\ o.payload.preserveCurrentPrice
                  /\ o.payload.subscription = SubId(2, 1)

\* C17: no line of a bulk run and no single submit has more than one vendor
\* write; after a rejected write no write is in flight, and the failure is
\* the error of the submit (the line's error entry while the modal is
\* mounted).
C17_AtMostOneWriteNoRetry ==
  /\ \A j, k \in DOMAIN hist.writes : j # k => hist.writes[j] # hist.writes[k]
  /\ (hist.lastResp.call = "write" /\ ~hist.lastResp.ok) =>
       LET k == hist.writes[Len(hist.writes)] IN
       /\ \A o \in ops : o.call # "write"
       /\ IF k = 0 THEN response = Err("Failed to update price")
          ELSE modal.mounted =>
                 /\ modal.errors # <<>>
                 /\ modal.errors[Len(modal.errors)] =
                      [territory |-> run.inputs[k].territory,
                       desiredPrice |-> run.inputs[k].desiredPrice,
                       message |-> <<"Failed to update price">>]

\* the write of line 1 succeeded, the write of line 2 was rejected
C17_Witness ==
  /\ hist.writes = <<1, 2>>
  /\ hist.lastResp = [call |-> "write", ok |-> FALSE]
  /\ modal.mounted /\ modal.doneCount = 1 /\ Len(modal.errors) = 1
  /\ run.pc = "done"

\* C18: the start date of an update is the calendar date two days after the
\* date of submission, be that date read in UTC or in the server's zone.
C18_StartDateTwoDaysAfterSubmission ==
  \A o \in ops : o.name = "update" =>
    o.startDate \in {UtcDate(clock) + 2, LocalDate(clock) + 2}

\* an update body lacks a required field
MissingField ==
  /\ hist.body.method \in {"POST", "PATCH"}
  /\ \/ hist.body.iapId = NoId
     \/ hist.body.territory = <<>>
     \/ hist.body.pricePointId = 0

\* C19: an update request that lacks the product id, the territory or the
\* price point id is answered with the validation error, and no vendor call
\* is made for it.
C19_MissingFieldRejected ==
  MissingField =>
    /\ ops = {}
    /\ response = Err("Missing required fields: iapId, territory, pricePointId")
    /\ hist.lastResp = NoResp /\ hist.writes = <<>> /\ hist.served = <<>>

\* a PATCH without price point id has been rejected
C19_Witness ==
  /\ hist.body.method = "PATCH"
  /\ hist.body.iapId = IapId /\ hist.body.territory = <<"US">>
  /\ hist.body.pricePointId = 0
  /\ ~response.ok /\ ops = {}

\* C21: the error entry of a line whose catalog fetch failed carries the
\* line's territory and price and the message of the failure that occurred
\* (the message of the failed response); that of a line whose catalog was
\* empty carries "No price points found for territory <t>".
C21_ErrorEntryCarriesActualMessage ==
  (modal.mounted /\ hist.lastFetch.kind \in {"null", "empty"}) =>
    LET in == run.inputs[hist.lastFetch.line] IN
    /\ modal.errors # <<>>
    /\ modal.errors[Len(modal.errors)] =
         [territory |-> in.territory, desiredPrice |-> in.desiredPrice,
          message |-> IF hist.lastFetch.kind = "null" THEN hist.lastFetch.msg
                      ELSE <<"No price points found for territory", in.territory>>]

\* C26: the price point id a bulk line submits is the id of an element of
\* the catalog fetched for that line, and the vendor write of the line goes
\* to the resource (kind and id) that catalog was fetched from.
C26_WrittenIdFromCatalogOfTarget ==
  \A o \in ops :
    (o.line > 0 /\ o.name = "update") =>
       /\ hist.fromCatalog
       /\ o.call = "write" =>
            /\ o.col = hist.fetchRes.col
            /\ o.target = hist.fetchRes.target

\* the id submitted by a bulk line is one of the ids of the line's catalog
FromCatalog == \A o \in ops : (o.line > 0 /\ o.name = "update") => hist.fromCatalog

\* C27: a bulk run with at least one valid line has invoked the parent's
\* refresh callback exactly once when it is over, whether or not lines
\* failed, and not at all before.
C27_RefreshOnceAfterLastLine ==
  run.inputs # <<>> =>
    /\ run.pc = "done" => hist.refreshes = 1
    /\ run.pc # "done" => hist.refreshes = 0

\* C28: a bulk run whose text has no valid line is over at once: no vendor
\* call and no pause were made, nothing was processed, no error is listed,
\* the modal is out of the in-progress state with the status "No valid
\* lines found in CSV", and the completion callback was not called.
C28_NoValidLineEndsAtOnce ==
  (run.pc = "done" /\ run.inputs = <<>>) =>
    /\ \A o \in ops : o.line = 0
    /\ hist.attempts = <<>> /\ hist.pausedAfter = 0 /\ hist.writes = <<>>
    /\ hist.lastResp = NoResp
    /\ hist.refreshes = 0 /\ hist.uncaught = <<>>
    /\ modal.mounted =>
         /\ modal.totalCount = 0 /\ modal.doneCount = 0
         /\ modal.errors = <<>>
         /\ ~modal.inProgress
         /\ modal.status = <<"No valid lines found in CSV">>

\* a text with lines, none of them valid, was submitted
C28_Witness ==
  /\ run.pc = "done" /\ run.inputs = <<>>
  /\ csvText # <<>>
  /\ modal.mounted /\ ~modal.inProgress /\ modal.totalCount = 0

\* C24: once a vendor call of a single-item request has failed (product,
\* groups or subscriptions of a group during resolution, the first catalog
\* page, the prices call or the write), the request is over, no further
\* call is made for it, and its response is an error carrying a message.
C24_SingleItemFailurePropagates ==
  hist.failedCalls # {} =>
    /\ \A o \in ops : o.line # 0
    /\ ~response.ok
    /\ response.msg # <<>>

\* the same, leaving aside failures of a group's subscriptions request
PropagatesButSubs ==
  (hist.failedCalls \ {"subs"}) # {} =>
    /\ \A o \in ops : o.line # 0
    /\ ~response.ok
    /\ response.msg # <<>>

\* C22: the preserveCurrentPrice of an update, and of the subscription price
\* it creates at the vendor, is the boolean its caller supplied: the one of
\* the request body for a single update, the one the checkbox held when the
\* run was started for every line of a bulk run.
C22_PreserveFlagAsSupplied ==
  \A o \in ops :
    o.name = "update" =>
      LET supplied == IF o.line = 0 THEN hist.body.preserveCurrentPrice
                      ELSE hist.supplied
      IN /\ o.preserveCurrentPrice = supplied
         /\ (o.call = "write" /\ o.isSubscription) =>
              o.payload.preserveCurrentPrice = supplied

\* the run was started with the box checked, the box was unchecked during
\* the run, and the second line's subscription price is being created
C22_Witness ==
  /\ modal.mounted /\ ~modal.preserveCurrentPrice
  /\ hist.supplied /\ run.i = 2
  /\ \E o \in ops : /\ o.line = 2 /\ o.call = "write" /\ o.isSubscription
                     /\ o.payload.preserveCurrentPrice

\* C23: a bulk run that has started is eventually over, with the modal (if
\* still open) out of the in-progress state and every line counted as
\* succeeded or listed as an error.
C23_BulkRunCompletes ==
  (run.pc \notin {"idle", "done"}) ~>
     /\ run.pc = "done"
     /\ modal.mounted =>
          /\ ~modal.inProgress
          /\ modal.doneCount + Len(modal.errors) = modal.totalCount

\* the handleBulkEdit invocations under way
ActiveRuns ==
  (IF Active(run) THEN 1 ELSE 0)
    + Cardinality({k \in DOMAIN orphans : Active(orphans[k].run)})

\* C25: at most one bulk run is under way at any time, also after the modal
\* was closed by backdrop or X and opened again; vendor writes of two runs
\* are never both in flight.
C25_AtMostOneActiveRun ==
  /\ ActiveRuns <= 1
  /\ \A k \in DOMAIN orphans :
       ~(/\ \E o \in ops : o.line > 0 /\ o.call = "write"
         /\ \E o \in orphans[k].ops : o.call = "write")

\* the included resource of that type and id exists in the vendor's page
Included(type, id) ==
  \E k \in DOMAIN vendor.included :
    vendor.included[k].type = type /\ vendor.included[k].id = id

\* the price of the vendor's page has its territory and the price point of
\* the product's kind in the included set
Complete(price) ==
  /\ Included("territories", price.territory)
  /\ IF isSub THEN Included("subscriptionPricePoints", price.subscriptionPricePoint)
     ELSE Included("inAppPurchasePricePoints", price.inAppPurchasePricePoint)

\* the positions of the vendor's prices that are complete
CompleteIds == {k \in DOMAIN vendor.data : Complete(vendor.data[k])}

\* C30: the prices of a listing page are exactly the vendor's prices whose
\* territory and price point are both in the included set of the same
\* response, in the vendor's order, each carrying those two ids; hasMore is
\* true exactly when the response carries a next link, and nextCursor is
\* the cursor of that link (null without a link).
C30_PricesFromIncludedInOrder ==
  listing.pc = "done" /\ listing.rows = <<>> /\ vendor.products = <<>> =>
    /\ {listing.prices[j].id : j \in DOMAIN listing.prices} = CompleteIds
    /\ Len(listing.prices) = Cardinality(CompleteIds)
    /\ \A j \in DOMAIN listing.prices :
         LET r == listing.prices[j]
             v == vendor.data[r.id]
         IN /\ r.territory = v.territory
            /\ r.pricePointId = PricePointRel(v, isSub)
            /\ Included("territories", r.territory)
            /\ \A i \in DOMAIN listing.prices : i < j => listing.prices[i].id < r.id
    /\ listing.hasMore = vendor.next.present
    /\ listing.nextCursor =
         (IF \E k \in DOMAIN vendor.next.params : vendor.next.params[k].key = "cursor"
          THEN "c2" ELSE Null)

\* a page of two prices with a next link: the first price lacks its price
\* point in the included set and is left out, the second is returned
C30_Witness ==
  /\ listing.pc = "done" /\ Len(vendor.data) = 2
  /\ ~Complete(vendor.data[1]) /\ vendor.data[1].territory = "USA"
  /\ Len(listing.prices) = 1 /\ listing.prices[1].id = 2
  /\ listing.hasMore /\ listing.nextCursor = "c2"

\* the body holds a US price whose price point is included with that
\* customer price
HasUSPrice(body, customerPrice) ==
  \E k \in DOMAIN body.data, t, q \in DOMAIN body.included :
    /\ body.data[k].territory \in {"USA", "US"}
    /\ body.included[t].type = "territories"
    /\ body.included[t].id = body.data[k].territory
    /\ body.included[q].type \in {"subscriptionPricePoints", "inAppPurchasePricePoints"}
    /\ body.included[q].id \in {body.data[k].subscriptionPricePoint,
                                 body.data[k].inAppPurchasePricePoint}
    /\ body.included[q].customerPrice = customerPrice

====
